---- MODULE Spec2Model ----
(***************************************************************************)
(* A model of the GitHub follower sync tool (src/main.py).                 *)
(*                                                                         *)
(* One process runs sync_followers() from top to bottom; an external       *)
(* trigger may start it again once it has returned.  The remote service    *)
(* (the followers and following listings), the two policy files and the    *)
(* history file are the environment the runs read and change.              *)
(*                                                                         *)
(* A login is a pair <<n, c>>: account n written in spelling c, where      *)
(* spelling 0 is the all-lower-case one and spelling 1 has capitals.       *)
(* Characters that are not letters are pairs <<0, k>>.  A string is a      *)
(* sequence of such tokens, a login being a one-token string.              *)
(***************************************************************************)
EXTENDS Integers, Sequences, FiniteSets, TLC

\* ------------------------------------------------------------------ bounds

\* Accounts that exist on the remote service: 1..MaxAccounts.
MaxAccounts == 3
\* Invocations of the tool by its external trigger.
MaxRuns == 2
\* The cap on actions per run.  The source sets 10 (src/main.py:25); the
\* model checks the same loops against a cap small enough for the candidate
\* lists over 1..MaxAccounts to exceed it.
MAX_ACTIONS_PER_RUN == 2

\* ------------------------------------------------------- program constants

\* history["follows"][-1000:], history["unfollows"][-1000:]
HISTORY_KEEP == 1000
\* per_page in get_all_pages
per_page == 100
\* Seconds between actions, at least and at most.
ACTION_DELAY_MIN == 2
ACTION_DELAY_MAX == 5

\* ------------------------------------------------------------ identifiers

Accounts == 1..MaxAccounts
\* The accounts whose login the listings and the policy files write in more
\* than one way; the logins of the others are always in lower case.
Named == {1}
Spellings(n) == IF n \in Named THEN {0, 1} ELSE {0}
SP == <<0, 0>>
HASH == <<0, 1>>

\* str.lower(): letters go to lower case, other characters stay.
lower_asis(t) == t
lower(t) == IF t[1] = 0 THEN t ELSE <<t[1], 0>>

\* str.lower() of a whole string.
LowerStr(s) == [k \in DOMAIN s |-> lower(s[k])]

\* The string of a login.
Str(u) == <<u>>

Min(a, b) == IF a < b THEN a ELSE b
Max(a, b) == IF a < b THEN b ELSE a

\* ------------------------------------------------------------- GitHub API

\* One request of get_all_pages: the slice of the server's listing that page
\* `page` holds when pages have `pp` entries.
PageOf_zeroBased(rel, pp, page) ==
    SubSeq(rel, page * pp + 1, Min((page + 1) * pp, Len(rel)))
PageOf(rel, pp, page) ==
    SubSeq(rel, (page - 1) * pp + 1, Min(page * pp, Len(rel)))

\* The while loop of get_all_pages.  Request number failAt answers with a
\* status other than 200 (0: every request answers 200).
RECURSIVE PageLoop(_, _, _, _, _)
PageLoop_discard(rel, pp, page, users, failAt) ==
    IF page = failAt
    THEN <<>>
    ELSE LET data == PageOf(rel, pp, page) IN
         IF data = <<>>
         THEN users
         ELSE IF Len(data) < pp
              THEN users \o data
              ELSE PageLoop(rel, pp, page + 1, users \o data, failAt)
PageLoop(rel, pp, page, users, failAt) ==
    IF page = failAt
    THEN users
    ELSE LET data == PageOf(rel, pp, page) IN
         IF data = <<>>
         THEN users
         ELSE IF Len(data) < pp
              THEN users \o data
              ELSE PageLoop(rel, pp, page + 1, users \o data, failAt)

get_all_pages(rel, failAt) == PageLoop(rel, per_page, 1, <<>>, failAt)

\* The number of requests that loop makes.
RECURSIVE RequestCount(_, _, _, _)
RequestCount(rel, pp, page, failAt) ==
    IF page = failAt
    THEN page
    ELSE LET data == PageOf(rel, pp, page) IN
         IF data = <<>> \/ Len(data) < pp
         THEN page
         ELSE RequestCount(rel, pp, page + 1, failAt)

\* The request numbers at which a fetch of listing rel can meet an error.
FailPoints(rel) == 0..((Len(rel) \div per_page) + 1)

\* -------------------------------------------------------- file operations

IsSpace(t) == t = SP

RECURSIVE lstrip(_)
lstrip(s) == IF s # <<>> /\ IsSpace(Head(s)) THEN lstrip(Tail(s)) ELSE s

RECURSIVE rstrip(_)
rstrip(s) ==
    IF s # <<>> /\ IsSpace(s[Len(s)]) THEN rstrip(SubSeq(s, 1, Len(s) - 1)) ELSE s

\* str.strip()
strip(s) == rstrip(lstrip(s))

\* str.startswith(c) for a one-character prefix.
startswith(s, c) == s # <<>> /\ Head(s) = c

\* load_list_file: a file is [exists, lines]; the line terminator, which
\* strip() removes and startswith() never reads, is left out of a line.
load_list_file(file) ==
    IF ~file.exists
    THEN {}
    ELSE { LowerStr(strip(file.lines[k])) :
             k \in { j \in DOMAIN file.lines :
                       /\ strip(file.lines[j]) # <<>>
                       /\ ~startswith(file.lines[j], HASH) } }

\* ------------------------------------------------------------- main logic

\* set(f.lower() for f in xs)
LowerSet_raw(xs) == { xs[k] : k \in DOMAIN xs }
LowerSet(xs) == { lower(xs[k]) : k \in DOMAIN xs }

\* user_lower in <policy set>: the policy sets hold strings.
InList(user_lower, list) == Str(user_lower) \in list

\* to_follow: followers not followed back and not blacklisted, in order.
ToFollow_stale(flw, flg, bl) ==
    SelectSeq(flw, LAMBDA user : ~InList(lower(user), bl))
ToFollow_noDeny(flw, flg, bl) ==
    SelectSeq(flw, LAMBDA user : lower(user) \notin LowerSet(flg))
ToFollow(flw, flg, bl) ==
    SelectSeq(flw, LAMBDA user :
        lower(user) \notin LowerSet(flg) /\ ~InList(lower(user), bl))

\* to_unfollow: following who do not follow back and are not whitelisted.
ToUnfollow_noAllow(flw, flg, wl) ==
    SelectSeq(flg, LAMBDA user : lower(user) \notin LowerSet(flw))
ToUnfollow(flw, flg, wl) ==
    SelectSeq(flg, LAMBDA user :
        lower(user) \notin LowerSet(flw) /\ ~InList(lower(user), wl))

\* xs[-n:]
LastN_oldest(xs, n) == SubSeq(xs, 1, Min(n, Len(xs)))
LastN(xs, n) == SubSeq(xs, Max(1, Len(xs) - n + 1), Len(xs))

\* {"user": user, "timestamp": now} for each user of a realized list.
Records(users, now) ==
    [k \in DOMAIN users |-> [user |-> users[k], timestamp |-> now]]

EmptyHistory == [follows |-> <<>>, unfollows |-> <<>>, last_run |-> 0]

\* load_history: the stored document, or a fresh one (last_run None is 0).
load_history(file) == IF file.exists THEN file.doc ELSE EmptyHistory

\* The history update of sync_followers: append, stamp, keep the last 1000.
UpdatedHistory(h, fd, ufd, now) ==
    [follows   |-> LastN(h.follows \o Records(fd, now), HISTORY_KEEP),
     unfollows |-> LastN(h.unfollows \o Records(ufd, now), HISTORY_KEEP),
     last_run  |-> now]

\* ------------------------------------------------------------------ state

VARIABLES
    token,            \* GITHUB_TOKEN is set
    whitelistFile,    \* data/whitelist.txt
    blacklistFile,    \* data/blacklist.txt
    historyFile,      \* data/history.json
    remoteFollowers,  \* the server's listing of the accounts following the user
    remoteFollowing,  \* the server's listing of the accounts the user follows
    pc,               \* where the run stands in sync_followers
    run,              \* the number of this invocation; its datetime.now()
    whitelist, blacklist,
    followers, following,
    to_follow, to_unfollow,
    pos,              \* the entry the running for loop is at
    followed, unfollowed, action_count,
    history,          \* the document sync_followers holds in memory
    trace,            \* the calls this run has made, in order
    startFollowing,   \* remoteFollowing when this run started
    startHistory,     \* historyFile when this run started
    delay,            \* the delay the run drew last (0: none yet)
    killedAt,         \* where the run stood when the process was killed
    lostFollows       \* what the run before followed and never recorded

env == <<token, whitelistFile, blacklistFile, historyFile,
         remoteFollowers, remoteFollowing>>
locals == <<whitelist, blacklist, followers, following, to_follow, to_unfollow,
            pos, followed, unfollowed, action_count, history>>
aside == <<killedAt, lostFollows>>
vars == <<env, locals, pc, run, trace, startFollowing, startHistory, delay, aside>>

NoUser == SP

\* One call of the run, as the trace records it.
Call(op, user, ok) == [op |-> op, user |-> user, ok |-> ok]

\* ------------------------------------------------------------ environment

\* The listings the server may hold over the accounts: each account at most
\* once, in account order, in one of its spellings.
RECURSIVE ListingsFrom(_)
ListingsFrom(n) ==
    IF n > MaxAccounts
    THEN {<<>>}
    ELSE LET rest == ListingsFrom(n + 1) IN
         rest \cup { <<<<n, c>>>> \o r : c \in Spellings(n), r \in rest }

Listings == ListingsFrom(1)

HasAccount(listing, u) == \E k \in DOMAIN listing : listing[k][1] = u[1]

\* PUT /user/following/{username} answered 204: the account is followed.
FollowEffect(listing, u) ==
    IF HasAccount(listing, u) THEN listing ELSE Append(listing, u)

\* DELETE /user/following/{username} answered 204: it is followed no more.
UnfollowEffect(listing, u) == SelectSeq(listing, LAMBDA v : v[1] # u[1])

File(lines) == [exists |-> TRUE, lines |-> lines]
NoFile == [exists |-> FALSE, lines |-> <<>>]

\* The lines a policy file may hold about account n: its login in capitals,
\* its login between blanks, and its login commented out.
PolicyLines ==
    UNION { { <<<<n, 1>>>>, <<SP, <<n, 0>>, SP>>, <<HASH, <<n, 0>>>> } :
            n \in Named }

PolicyFiles == {NoFile} \cup { File(<<l>>) : l \in PolicyLines }

\* k records of earlier runs, oldest first.
OldRecords(k) ==
    [j \in 1..k |-> [user |-> <<1, 0>>, timestamp |-> j - k]]

Stored(doc) == [exists |-> TRUE, whole |-> TRUE, doc |-> doc]
NoHistory == [exists |-> FALSE, whole |-> TRUE, doc |-> EmptyHistory]

\* A document an earlier run left with one follow in it.
ShortHistory ==
    [follows |-> OldRecords(1), unfollows |-> <<>>, last_run |-> 0]

\* A document earlier runs left with k records in each sequence.
LongHistory(k) ==
    [follows |-> OldRecords(k), unfollows |-> OldRecords(k), last_run |-> 0]

\* The history files a run may find when many runs came before it: none,
\* one at the limit, one just short of it.
HistoryFiles ==
    { NoHistory, Stored(LongHistory(HISTORY_KEEP)),
      Stored(LongHistory(HISTORY_KEEP - 1)) }

\* The listings that write every login in lower case.
PlainListings == { l \in Listings : \A k \in DOMAIN l : l[k][2] = 0 }

\* ------------------------------------------------------------------- Init

Fresh ==
    /\ pc = "start"
    /\ whitelist = {} /\ blacklist = {}
    /\ followers = <<>> /\ following = <<>>
    /\ to_follow = <<>> /\ to_unfollow = <<>>
    /\ pos = 1
    /\ followed = <<>> /\ unfollowed = <<>>
    /\ action_count = 0
    /\ history = EmptyHistory
    /\ trace = <<>>
    /\ delay = 0

\* No process was killed.
Plain ==
    /\ killedAt = "none"
    /\ lostFollows = {}

Init ==
    /\ token \in BOOLEAN
    /\ whitelistFile \in PolicyFiles
    /\ blacklistFile \in PolicyFiles
    /\ historyFile \in {NoHistory, Stored(ShortHistory)}
    /\ remoteFollowers \in Listings
    /\ remoteFollowing \in Listings
    /\ run = 1
    /\ Fresh
    /\ startFollowing = remoteFollowing
    /\ startHistory = historyFile
    /\ Plain

\* ---------------------------------------------------------------- actions

\* if not GITHUB_TOKEN: return
TokenMissing_never(t) == FALSE
TokenMissing(t) == ~t

\* The cap test of the follow loop.
FollowCapReached_late(count) == count > MAX_ACTIONS_PER_RUN
FollowCapReached(count) == count >= MAX_ACTIONS_PER_RUN

\* The cap test of the unfollow loop.
UnfollowCapReached_own(count) == Len(unfollowed) >= MAX_ACTIONS_PER_RUN
UnfollowCapReached(count) == count >= MAX_ACTIONS_PER_RUN

\* The for loop has no entry left.
Exhausted_early(p, list) == p > Len(list) - 1
Exhausted(p, list) == p > Len(list)

\* random.uniform(a, b): a duration of the interval from a to b, of which
\* the two ends stand for all.
uniform_fromZero(a, b) == {0, b}
uniform(a, b) == {a, b}

\* time.sleep(delay), then the call: what one pass of a loop adds to the trace.
Paced_burst(call) ==
    IF \E k \in DOMAIN trace : trace[k].op \in {"follow", "unfollow"}
    THEN <<Call("sleep", NoUser, TRUE), call>>
    ELSE <<call>>
Paced(call) == <<Call("sleep", NoUser, TRUE), call>>

\* followed.append(user), unfollowed.append(user)
Appended_lower(list, user) == Append(list, lower(user))
Appended(list, user) == Append(list, user)

\* if followed or unfollowed:
ShouldNotify_always(fd, ufd) == TRUE
ShouldNotify(fd, ufd) == fd # <<>> \/ ufd # <<>>

\* send_telegram_message: whether it posts the message, which it does when
\* the bot token and the chat id are configured.
send_telegram_message(configured) == configured

\* What comes after the two loops: the history update.
AfterActions_noSave == "report"
AfterActions == "history"

\* json.load raises on a file that holds no whole document.
Unreadable(file) == file.exists /\ ~file.whole

\* The file as open(HISTORY_FILE, "w") leaves it, and as a dump that was
\* cut short leaves it: no whole document.
Truncated == [exists |-> TRUE, whole |-> FALSE, doc |-> EmptyHistory]

\* The token check, then the loading of the two policy lists.
Start ==
    /\ pc = "start"
    /\ IF TokenMissing(token)
       THEN /\ pc' = "returned"
            /\ UNCHANGED <<whitelist, blacklist>>
       ELSE /\ whitelist' = load_list_file(whitelistFile)
            /\ blacklist' = load_list_file(blacklistFile)
            /\ pc' = "get_followers"
    /\ UNCHANGED <<env, followers, following, to_follow, to_unfollow, pos,
                   followed, unfollowed, action_count, history, run, trace,
                   startFollowing, startHistory, delay, aside>>

\* The requests of one fetch, in order; only request failAt fails.
RequestLog(op, rel, failAt) ==
    [ k \in 1..RequestCount(rel, per_page, 1, failAt) |->
        Call(op, NoUser, k # failAt) ]

\* followers = get_followers()
GetFollowers(failAt) ==
    /\ pc = "get_followers"
    /\ followers' = get_all_pages(remoteFollowers, failAt)
    /\ trace' = trace \o RequestLog("get_followers", remoteFollowers, failAt)
    /\ pc' = "get_following"
    /\ UNCHANGED <<env, whitelist, blacklist, following, to_follow, to_unfollow,
                   pos, followed, unfollowed, action_count, history, run,
                   startFollowing, startHistory, delay, aside>>

\* following = get_following(), then the two candidate lists.
GetFollowing(failAt) ==
    /\ pc = "get_following"
    /\ following' = get_all_pages(remoteFollowing, failAt)
    /\ to_follow' = ToFollow(followers, following', blacklist)
    /\ to_unfollow' = ToUnfollow(followers, following', whitelist)
    /\ followed' = <<>>
    /\ unfollowed' = <<>>
    /\ action_count' = 0
    /\ pos' = 1
    /\ trace' = trace \o RequestLog("get_following", remoteFollowing, failAt)
    /\ pc' = "follow"
    /\ UNCHANGED <<env, whitelist, blacklist, followers, history, run,
                   startFollowing, startHistory, delay, aside>>

\* One pass of the follow loop: the cap test, the sleep, the call.
FollowStep(ok) ==
    /\ pc = "follow"
    /\ ~Exhausted(pos, to_follow)
    /\ ~FollowCapReached(action_count)
    /\ LET user == to_follow[pos] IN
        /\ delay' \in uniform(ACTION_DELAY_MIN, ACTION_DELAY_MAX)
        /\ trace' = trace \o Paced(Call("follow", user, ok))
        /\ IF ok
           THEN /\ followed' = Appended(followed, user)
                /\ action_count' = action_count + 1
                /\ remoteFollowing' = FollowEffect(remoteFollowing, user)
           ELSE UNCHANGED <<followed, action_count, remoteFollowing>>
    /\ pos' = pos + 1
    /\ UNCHANGED <<token, whitelistFile, blacklistFile, historyFile,
                   remoteFollowers, whitelist, blacklist, followers, following,
                   to_follow, to_unfollow, unfollowed, history, pc, run,
                   startFollowing, startHistory, aside>>

\* The follow loop ends: the list is exhausted, or the cap test breaks.
FollowEnd ==
    /\ pc = "follow"
    /\ Exhausted(pos, to_follow) \/ FollowCapReached(action_count)
    /\ pc' = "unfollow"
    /\ pos' = 1
    /\ UNCHANGED <<env, whitelist, blacklist, followers, following, to_follow,
                   to_unfollow, followed, unfollowed, action_count, history,
                   run, trace, startFollowing, startHistory, delay, aside>>

\* One pass of the unfollow loop.
UnfollowStep(ok) ==
    /\ pc = "unfollow"
    /\ ~Exhausted(pos, to_unfollow)
    /\ ~UnfollowCapReached(action_count)
    /\ LET user == to_unfollow[pos] IN
        /\ delay' \in uniform(ACTION_DELAY_MIN, ACTION_DELAY_MAX)
        /\ trace' = trace \o Paced(Call("unfollow", user, ok))
        /\ IF ok
           THEN /\ unfollowed' = Appended(unfollowed, user)
                /\ action_count' = action_count + 1
                /\ remoteFollowing' = UnfollowEffect(remoteFollowing, user)
           ELSE UNCHANGED <<unfollowed, action_count, remoteFollowing>>
    /\ pos' = pos + 1
    /\ UNCHANGED <<token, whitelistFile, blacklistFile, historyFile,
                   remoteFollowers, whitelist, blacklist, followers, following,
                   to_follow, to_unfollow, followed, history, pc, run,
                   startFollowing, startHistory, aside>>

UnfollowEnd ==
    /\ pc = "unfollow"
    /\ Exhausted(pos, to_unfollow) \/ UnfollowCapReached(action_count)
    /\ pc' = AfterActions
    /\ UNCHANGED <<env, whitelist, blacklist, followers, following, to_follow,
                   to_unfollow, pos, followed, unfollowed, action_count,
                   history, run, trace, startFollowing, startHistory, delay, aside>>

\* load_history, the appends and the two slices, then save_history up to
\* open(HISTORY_FILE, "w"), which leaves the file empty.  On a file that
\* holds no whole document json.load raises and the run ends there.
UpdateHistory ==
    /\ pc = "history"
    /\ IF Unreadable(historyFile)
       THEN /\ pc' = "raised"
            /\ UNCHANGED <<history, historyFile>>
       ELSE /\ history' = UpdatedHistory(load_history(historyFile),
                                         followed, unfollowed, run)
            /\ historyFile' = Truncated
            /\ pc' = "dump"
    /\ UNCHANGED <<token, whitelistFile, blacklistFile, remoteFollowers,
                   remoteFollowing, whitelist, blacklist, followers, following,
                   to_follow, to_unfollow, pos, followed, unfollowed,
                   action_count, run, trace, startFollowing, startHistory, delay, aside>>

\* json.dump and the close of the file.
Dump ==
    /\ pc = "dump"
    /\ historyFile' = Stored(history)
    /\ trace' = Append(trace, Call("save_history", NoUser, TRUE))
    /\ pc' = "report"
    /\ UNCHANGED <<token, whitelistFile, blacklistFile, remoteFollowers,
                   remoteFollowing, locals, run, startFollowing, startHistory, delay, aside>>

\* if followed or unfollowed: send_telegram_message(...)
Report ==
    /\ pc = "report"
    /\ \E configured \in BOOLEAN :
          trace' = IF ShouldNotify(followed, unfollowed)
                   THEN Append(trace, Call("send_telegram_message", NoUser,
                                           send_telegram_message(configured)))
                   ELSE trace
    /\ pc' = "returned"
    /\ UNCHANGED <<env, locals, run, startFollowing, startHistory, delay, aside>>

\* The process is killed where it stands.
Crash ==
    /\ pc \in {"start", "get_followers", "get_following", "follow", "unfollow",
               "history", "dump", "report"}
    /\ killedAt' = pc
    /\ pc' = "killed"
    /\ UNCHANGED <<env, locals, run, trace, startFollowing, startHistory,
                   delay, lostFollows>>

\* The follows of a run that ended before its history was written.
Unrecorded ==
    IF \/ pc = "raised"
       \/ pc = "killed" /\ killedAt \in {"follow", "unfollow", "history", "dump"}
    THEN { followed[k] : k \in DOMAIN followed }
    ELSE {}

\* The external trigger invokes the tool again.
Restart ==
    /\ pc \in {"returned", "killed", "raised"}
    /\ run < MaxRuns
    /\ run' = run + 1
    /\ pc' = "start"
    /\ whitelist' = {} /\ blacklist' = {}
    /\ followers' = <<>> /\ following' = <<>>
    /\ to_follow' = <<>> /\ to_unfollow' = <<>>
    /\ pos' = 1
    /\ followed' = <<>> /\ unfollowed' = <<>>
    /\ action_count' = 0
    /\ history' = EmptyHistory
    /\ trace' = <<>>
    /\ delay' = 0
    /\ startFollowing' = remoteFollowing
    /\ startHistory' = historyFile
    /\ killedAt' = "none"
    /\ lostFollows' = Unrecorded
    /\ UNCHANGED env

Next ==
    \/ Start
    \/ \E failAt \in FailPoints(remoteFollowers) : GetFollowers(failAt)
    \/ \E failAt \in FailPoints(remoteFollowing) : GetFollowing(failAt)
    \/ \E ok \in BOOLEAN : FollowStep(ok)
    \/ FollowEnd
    \/ \E ok \in BOOLEAN : UnfollowStep(ok)
    \/ UnfollowEnd
    \/ UpdateHistory
    \/ Dump
    \/ Report

Spec == Init /\ [][Next]_vars

\* ------------------------------------------- a run on a long history

\* One run that finds a history file at or near its limit.
InitHistory ==
    /\ token = TRUE
    /\ whitelistFile = NoFile
    /\ blacklistFile = NoFile
    /\ historyFile \in HistoryFiles
    /\ remoteFollowers \in PlainListings
    /\ remoteFollowing \in PlainListings
    /\ run = 1
    /\ Fresh
    /\ startFollowing = remoteFollowing
    /\ startHistory = historyFile
    /\ Plain

SpecHistory == InitHistory /\ [][Next]_vars

\* ------------------------------------------------------- successive runs

\* The tool is invoked again and again on a remote whose followers stay the
\* same, with no policy file, every follow and unfollow call answering 204.
InitRuns ==
    /\ token = TRUE
    /\ whitelistFile = NoFile
    /\ blacklistFile = NoFile
    /\ historyFile = NoHistory
    /\ remoteFollowers \in Listings
    /\ remoteFollowing \in Listings
    /\ run = 1
    /\ Fresh
    /\ startFollowing = remoteFollowing
    /\ startHistory = historyFile
    /\ Plain

NextRuns ==
    \/ Start
    \/ \E failAt \in FailPoints(remoteFollowers) : GetFollowers(failAt)
    \/ \E failAt \in FailPoints(remoteFollowing) : GetFollowing(failAt)
    \/ FollowStep(TRUE)
    \/ FollowEnd
    \/ UnfollowStep(TRUE)
    \/ UnfollowEnd
    \/ UpdateHistory
    \/ Dump
    \/ Report
    \/ Restart

\* A run that has started goes on to its end, and the trigger fires again.
SpecRuns == InitRuns /\ [][NextRuns]_vars /\ WF_vars(NextRuns)

\* ---------------------------------------------- a run on long listings

\* n accounts in the server's order, starting after account `from`.
LongListing(from, n) == [ k \in 1..n |-> <<from + k, 0>> ]

\* Lengths on both sides of the page boundaries.
PageLengths == {0, 1, per_page - 1, per_page, per_page + 1, 2 * per_page}

InitPages ==
    /\ token = TRUE
    /\ whitelistFile = NoFile
    /\ blacklistFile = NoFile
    /\ historyFile = NoHistory
    /\ remoteFollowers \in { LongListing(0, n) : n \in PageLengths }
    /\ remoteFollowing \in { LongListing(1, n) : n \in PageLengths }
    /\ run = 1
    /\ Fresh
    /\ startFollowing = remoteFollowing
    /\ startHistory = historyFile
    /\ Plain

\* Every follow and unfollow call succeeds, so that the cap ends the loops
\* over the long candidate lists.
NextPages ==
    \/ Start
    \/ \E failAt \in FailPoints(remoteFollowers) : GetFollowers(failAt)
    \/ \E failAt \in FailPoints(remoteFollowing) : GetFollowing(failAt)
    \/ FollowStep(TRUE)
    \/ FollowEnd
    \/ UnfollowStep(TRUE)
    \/ UnfollowEnd
    \/ UpdateHistory
    \/ Dump
    \/ Report

SpecPages == InitPages /\ [][NextPages]_vars

\* ------------------------------------------ a run on hand-written lists

\* The lines a hand-written list may hold: those of PolicyLines, an empty
\* line, a blank one, a comment written after a blank, and a login with the
\* marker behind it.
ListLines ==
    PolicyLines \cup { <<>>, <<SP>>, <<SP, HASH, <<1, 0>>>>, <<<<1, 0>>, HASH>> }

ShortFiles == {NoFile} \cup { File(<<l>>) : l \in ListLines }

ListFiles == ShortFiles \cup { File(<<l, m>>) : l, m \in ListLines }

\* Everybody, or nobody, in the server's order.
Everybody == [ k \in 1..MaxAccounts |-> <<k, 0>> ]

InitLists ==
    /\ token = TRUE
    /\ whitelistFile \in ListFiles
    /\ blacklistFile \in ShortFiles
    /\ historyFile = NoHistory
    /\ remoteFollowers \in {<<>>, Everybody}
    /\ remoteFollowing \in {<<>>, Everybody}
    /\ run = 1
    /\ Fresh
    /\ startFollowing = remoteFollowing
    /\ startHistory = historyFile
    /\ Plain

SpecLists == InitLists /\ [][Next]_vars

\* ------------------------------------------------- runs that are killed

\* Runs that may be killed at any point, each followed by the next run;
\* every follow and unfollow call succeeds.
InitCrash ==
    /\ token = TRUE
    /\ whitelistFile = NoFile
    /\ blacklistFile = NoFile
    /\ historyFile \in {NoHistory, Stored(ShortHistory)}
    /\ remoteFollowers \in Listings
    /\ remoteFollowing \in Listings
    /\ run = 1
    /\ Fresh
    /\ startFollowing = remoteFollowing
    /\ startHistory = historyFile
    /\ Plain

NextCrash ==
    \/ Start
    \/ \E failAt \in FailPoints(remoteFollowers) : GetFollowers(failAt)
    \/ \E failAt \in FailPoints(remoteFollowing) : GetFollowing(failAt)
    \/ FollowStep(TRUE)
    \/ FollowEnd
    \/ UnfollowStep(TRUE)
    \/ UnfollowEnd
    \/ UpdateHistory
    \/ Dump
    \/ Report
    \/ Crash
    \/ Restart

SpecCrash == InitCrash /\ [][NextCrash]_vars

\* ------------------------------------------------------- reading a trace

\* The places of the trace where operation op was called.
At(op) == { k \in DOMAIN trace : trace[k].op = op }

\* The calls of follow_user and unfollow_user, failed ones included.
Attempts == At("follow") \cup At("unfollow")

\* The calls that came back with success.
Realized == { k \in Attempts : trace[k].ok }

\* The run is past the follow loop.
PastFollowLoop == pc \in {"unfollow", "history", "dump", "report", "returned"}

\* The run is past the fetch of both listings.
Analysed == pc \in {"follow"} \/ PastFollowLoop

SameAccount(u, v) == u[1] = v[1]

\* The login of account n as a policy list holds it.
Canon(u) == <<<<u[1], 0>>>>

\* ------------------------------------------------------------------ claims

\* C1: in every run the realized follows plus the realized unfollows number
\* at most MAX_ACTIONS_PER_RUN, one budget for both phases together.
C1_RealizedWithinCap ==
    /\ Len(followed) + Len(unfollowed) <= MAX_ACTIONS_PER_RUN
    /\ Cardinality(Realized) <= MAX_ACTIONS_PER_RUN

\* A run that spent the whole budget over both phases and left candidates.
C1_Witness ==
    /\ pc = "returned"
    /\ followed # <<>> /\ unfollowed # <<>>
    /\ Len(followed) + Len(unfollowed) = MAX_ACTIONS_PER_RUN
    /\ Len(to_follow) + Len(to_unfollow) > MAX_ACTIONS_PER_RUN

\* C2: the calls of follow_user and unfollow_user of one run, failed ones
\* included, number at most MAX_ACTIONS_PER_RUN.
C2_AttemptsWithinCap == Cardinality(Attempts) <= MAX_ACTIONS_PER_RUN

\* C3: no follow_user call comes after an unfollow_user call, and the
\* unfollow loop starts only once every follow candidate was attempted or
\* the cap was reached.
C3_FollowsBeforeUnfollows ==
    /\ \A j \in At("unfollow") : \A k \in At("follow") : k < j
    /\ PastFollowLoop =>
          \/ Cardinality(At("follow")) = Len(to_follow)
          \/ Len(followed) >= MAX_ACTIONS_PER_RUN

\* A run that made calls of both kinds.
C3_Witness ==
    /\ pc = "returned"
    /\ At("follow") # {} /\ At("unfollow") # {}

\* C4: when the follow phase uses up the budget, the run makes no
\* unfollow_user call, however many candidates there are.
C4_NoUnfollowAfterCap ==
    (PastFollowLoop /\ Len(followed) >= MAX_ACTIONS_PER_RUN) => At("unfollow") = {}

\* A finished run whose follows used up the budget and that had accounts
\* to unfollow.
C4_Witness ==
    /\ pc = "returned"
    /\ Len(followed) >= MAX_ACTIONS_PER_RUN
    /\ to_unfollow # <<>>

\* C5: no follow candidate is an account of the following list and no
\* unfollow candidate is an account of the followers list, whatever the
\* spelling of the logins.
C5_CandidatesNotReciprocated ==
    Analysed =>
      /\ \A k \in DOMAIN to_follow : \A j \in DOMAIN following :
            ~SameAccount(to_follow[k], following[j])
      /\ \A k \in DOMAIN to_unfollow : \A j \in DOMAIN followers :
            ~SameAccount(to_unfollow[k], followers[j])

\* Both lists hold the same account under two spellings, and there are
\* candidates of both kinds.
C5_Witness ==
    /\ Analysed
    /\ \E k \in DOMAIN followers : \E j \in DOMAIN following :
          SameAccount(followers[k], following[j]) /\ followers[k] # following[j]
    /\ to_follow # <<>> /\ to_unfollow # <<>>

\* C6: no follow_user call targets an account whose lower-cased login is in
\* the blacklist.
C6_DeniedNeverFollowed ==
    \A k \in At("follow") : Canon(trace[k].user) \notin load_list_file(blacklistFile)

\* A follower written in capitals is blacklisted and not followed, and the
\* run followed someone else.
C6_Witness ==
    /\ pc = "returned"
    /\ At("follow") # {}
    /\ \E k \in DOMAIN followers :
          /\ followers[k][2] = 1
          /\ Canon(followers[k]) \in blacklist
          /\ \A j \in DOMAIN following : ~SameAccount(followers[k], following[j])

\* C7: no unfollow_user call targets an account whose lower-cased login is
\* in the whitelist.
C7_AllowedNeverUnfollowed ==
    \A k \in At("unfollow") : Canon(trace[k].user) \notin load_list_file(whitelistFile)

\* A followed account written in capitals is whitelisted and does not follow
\* back, and the run unfollowed someone else.
C7_Witness ==
    /\ pc = "returned"
    /\ At("unfollow") # {}
    /\ \E k \in DOMAIN following :
          /\ following[k][2] = 1
          /\ Canon(following[k]) \in whitelist
          /\ \A j \in DOMAIN followers : ~SameAccount(following[k], followers[j])

\* The accounts of a listing.
AccountsOf(listing) == { listing[k][1] : k \in DOMAIN listing }

\* The user follows exactly the accounts that follow the user.
Parity == AccountsOf(remoteFollowing) = AccountsOf(remoteFollowers)

\* This run started on a remote at parity.
StartedAtParity == AccountsOf(startFollowing) = AccountsOf(remoteFollowers)

\* A run started at parity makes no follow or unfollow call.
QuietAtParity == StartedAtParity => Attempts = {}

\* C8: with followers that do not change, no policy entry and every follow
\* and unfollow call succeeding, successive runs reach parity and stay
\* there, and a run started at parity makes no follow or unfollow call.
C8_ConvergesToParity == (<>[]Parity) /\ []QuietAtParity

\* The records a run writes for the users of a realized list.
NewRecords(users) ==
    [k \in DOMAIN users |-> [user |-> users[k], timestamp |-> run]]

\* kept is the last min(HISTORY_KEEP, n) entries of the n of all, in order.
IsNewestOf(kept, all) ==
    /\ Len(kept) = Min(HISTORY_KEEP, Len(all))
    /\ \A k \in 1..Len(kept) : kept[k] = all[Len(all) - Len(kept) + k]

\* C9: after the history update each sequence holds at most 1000 records:
\* the newest of the stored records followed by the records of this run.
C9_HistoryKeepsNewest ==
    LET before == load_history(startHistory) IN
    /\ (pc \in {"dump", "report"} \/ (pc = "returned" /\ token)) =>
          /\ Len(history.follows) <= HISTORY_KEEP
          /\ Len(history.unfollows) <= HISTORY_KEEP
          /\ IsNewestOf(history.follows, before.follows \o NewRecords(followed))
          /\ IsNewestOf(history.unfollows, before.unfollows \o NewRecords(unfollowed))
    /\ (pc = "report" \/ (pc = "returned" /\ token)) =>
          historyFile = Stored(history)

\* A run added to both sequences of a full history and stored the result.
C9_Witness ==
    /\ pc = "returned"
    /\ followed # <<>> /\ unfollowed # <<>>
    /\ Len(startHistory.doc.follows) = HISTORY_KEEP
    /\ Len(startHistory.doc.unfollows) = HISTORY_KEEP
    /\ historyFile.doc.follows[HISTORY_KEEP].timestamp = run
    /\ historyFile.doc.follows[1] = startHistory.doc.follows[2]

\* C10: a run without the token makes no call, leaves the history file and
\* the remote listings as they were, and sends no notification.
C10_NoTokenNoEffect ==
    ~token =>
      /\ trace = <<>>
      /\ historyFile = startHistory
      /\ remoteFollowing = startFollowing
      /\ pc \in {"start", "returned"}

\* A run without the token has returned although there was work to do.
C10_Witness ==
    /\ ~token
    /\ pc = "returned"
    /\ \E k \in DOMAIN remoteFollowers :
          \A j \in DOMAIN remoteFollowing :
             ~SameAccount(remoteFollowers[k], remoteFollowing[j])

\* The users of the calls of op, in call order: all of them, and those that
\* came back with success.
Targets(op) ==
    LET calls == SelectSeq(trace, LAMBDA c : c.op = op) IN
    [k \in DOMAIN calls |-> calls[k].user]

RealizedTargets(op) ==
    LET calls == SelectSeq(trace, LAMBDA c : c.op = op /\ c.ok) IN
    [k \in DOMAIN calls |-> calls[k].user]

\* The run passed the token check and returned.
Completed == pc = "returned" /\ token

\* C11: send_telegram_message is called in a run if and only if the run
\* realized an action; a run whose attempts all failed calls it not.
C11_NotifyIffRealized ==
    /\ At("send_telegram_message") # {} => Realized # {}
    /\ Cardinality(At("send_telegram_message")) <= 1
    /\ Completed => (Realized # {} => At("send_telegram_message") # {})

\* A run made attempts, all failed, and it returned without a notification.
C11_Witness ==
    /\ Completed
    /\ Attempts # {}
    /\ Realized = {}
    /\ At("send_telegram_message") = {}

\* C12: every follow_user and unfollow_user call, the first one included,
\* comes right after a sleep of its own, of ACTION_DELAY_MIN to
\* ACTION_DELAY_MAX seconds.
C12_SleepBeforeEachCall ==
    /\ \A k \in Attempts : k > 1 /\ trace[k - 1].op = "sleep"
    /\ Cardinality(At("sleep")) = Cardinality(Attempts)
    /\ Attempts # {} => (delay >= ACTION_DELAY_MIN /\ delay <= ACTION_DELAY_MAX)

\* A run made calls of both kinds, one after the other.
C12_Witness ==
    /\ pc = "returned"
    /\ Cardinality(At("follow")) >= 1
    /\ Cardinality(At("unfollow")) >= 1
    /\ delay = ACTION_DELAY_MAX

\* C13: followed and unfollowed are the targets of the successful calls, in
\* call order and as the lists spelled them; the calls go down the candidate
\* lists in order, and a failed call does not end a loop.
C13_RealizedAreTheSuccesses ==
    /\ followed = RealizedTargets("follow")
    /\ unfollowed = RealizedTargets("unfollow")
    /\ Targets("follow") = SubSeq(to_follow, 1, Cardinality(At("follow")))
    /\ Targets("unfollow") = SubSeq(to_unfollow, 1, Cardinality(At("unfollow")))
    /\ (PastFollowLoop /\ Len(followed) < MAX_ACTIONS_PER_RUN) =>
          Cardinality(At("follow")) = Len(to_follow)
    /\ (Completed /\ Len(followed) + Len(unfollowed) < MAX_ACTIONS_PER_RUN) =>
          Cardinality(At("unfollow")) = Len(to_unfollow)

\* A follow of a login in capitals succeeded, the next one failed, and the
\* one after that succeeded.
C13_Witness ==
    /\ pc = "returned"
    /\ \E i, j, k \in At("follow") :
          /\ i < j /\ j < k
          /\ trace[i].ok /\ trace[i].user[2] = 1
          /\ ~trace[j].ok
          /\ trace[k].ok
    /\ Len(followed) = 2


\* ---------------------------------------------------------- killed runs

\* Where the run stands, or stood when it was killed.
Where == IF pc = "killed" THEN killedAt ELSE pc

BeforeSave == Where \in {"start", "get_followers", "get_following", "follow",
                         "unfollow", "history", "raised"}

\* C14: a run that passes the token check writes the history once, after
\* its last follow or unfollow call, and a run that returns has written it;
\* until save_history begins the stored history is the one the run found.
C14_SavedOnceAfterActions ==
    /\ Cardinality(At("save_history")) <= 1
    /\ Completed => Cardinality(At("save_history")) = 1
    /\ \A s \in At("save_history") : \A k \in Attempts : k < s
    /\ BeforeSave => (historyFile = startHistory /\ At("save_history") = {})

C14_Witness ==
    /\ pc = "killed"
    /\ killedAt = "history"
    /\ Realized # {}
    /\ startHistory = Stored(ShortHistory)

\* C15: a run killed during save_history leaves either the whole previous
\* document or the whole new one in the history file.
C15_AtomicSave ==
    pc = "killed" =>
        /\ historyFile.whole
        /\ historyFile = startHistory \/ historyFile = Stored(history)

\* C16: a follow that succeeded in a run that ended before its history was
\* written is not attempted again by the next run when the following list
\* that run fetched contains the account.
C16_LostFollowNotRepeated ==
    \A u \in lostFollows :
        (Analysed /\ \E j \in DOMAIN following : SameAccount(following[j], u))
            => \A k \in At("follow") : ~SameAccount(trace[k].user, u)

C16_Witness ==
    /\ run = 2
    /\ pc = "returned"
    /\ lostFollows # {}
    /\ \A u \in lostFollows : \E j \in DOMAIN following : SameAccount(following[j], u)
    /\ \E u \in lostFollows : u[2] = 1
    /\ At("follow") # {}

\* ------------------------------------------------------------ pagination

Failed(op) == { k \in At(op) : ~trace[k].ok }

Fetched(op) == IF op = "get_followers"
               THEN pc \notin {"start", "get_followers"}
               ELSE Analysed

\* What a fetch that made `requests` page requests without an error returns
\* of a listing of n accounts.
WholeIn(requests, n) == requests = (n \div per_page) + 1

\* C17: when every page request succeeds, get_all_pages returns the whole
\* listing in the server's order, after as many requests as the listing has
\* full pages and one more: the short or empty page that ends the loop.
C17_AllPagesFetched ==
    /\ (Fetched("get_followers") /\ Failed("get_followers") = {}) =>
          /\ followers = remoteFollowers
          /\ WholeIn(Cardinality(At("get_followers")), Len(remoteFollowers))
    /\ (Fetched("get_following") /\ Failed("get_following") = {}) =>
          /\ following = startFollowing
          /\ WholeIn(Cardinality(At("get_following")), Len(startFollowing))

C17_Witness ==
    /\ pc = "returned"
    /\ Failed("get_followers") = {}
    /\ Failed("get_following") = {}
    /\ Len(followers) = 2 * per_page
    /\ Cardinality(At("get_followers")) = 3
    /\ Len(following) = per_page - 1
    /\ Cardinality(At("get_following")) = 1

\* The first pages of a listing that `requests` requests, the last of which
\* failed, have brought.
PartOf(rel, requests) == SubSeq(rel, 1, (requests - 1) * per_page)

\* C18: a page request that fails is the last request of its fetch, the
\* fetch returns the pages that came before it, and the run goes on to
\* derive its candidates from the list so returned.
C18_PartialListOnError ==
    /\ \A op \in {"get_followers", "get_following"} :
          \A k \in Failed(op) : \A j \in At(op) : j <= k
    /\ Failed("get_followers") # {} =>
          followers = PartOf(remoteFollowers, Cardinality(At("get_followers")))
    /\ Failed("get_following") # {} =>
          following = PartOf(startFollowing, Cardinality(At("get_following")))
    /\ pc # "raised"
    /\ (Analysed /\ Failed("get_followers") \cup Failed("get_following") # {}) =>
          /\ to_follow = ToFollow(followers, following, blacklist)
          /\ to_unfollow = ToUnfollow(followers, following, whitelist)

C18_Witness ==
    /\ pc = "returned"
    /\ Cardinality(At("get_followers")) = 2
    /\ Failed("get_followers") # {}
    /\ Len(followers) = per_page
    /\ Len(remoteFollowers) = 2 * per_page
    /\ Failed("get_following") = {}
    /\ \E k \in At("unfollow") : HasAccount(remoteFollowers, trace[k].user)

\* ----------------------------------------------------------- policy lists

Loaded == pc # "start" /\ token

\* The lines of a file that are neither empty after trimming nor comments.
Entries(file) ==
    { strip(file.lines[k]) :
        k \in { j \in DOMAIN file.lines :
                  /\ strip(file.lines[j]) # <<>>
                  /\ ~startswith(strip(file.lines[j]), HASH) } }

\* C19: a loaded list is the set of the trimmed, lower-cased lines of its
\* file that are not empty and are not comments, so that no element of it
\* is empty or begins with the comment marker; an absent file gives the
\* empty set.
C19_ListIsTheEntries ==
    Loaded =>
        /\ whitelist = { LowerStr(l) : l \in Entries(whitelistFile) }
        /\ blacklist = { LowerStr(l) : l \in Entries(blacklistFile) }
        /\ \A l \in whitelist \cup blacklist : l # <<>> /\ Head(l) # HASH
        /\ ~whitelistFile.exists => whitelist = {}
        /\ ~blacklistFile.exists => blacklist = {}

\* ------------------------------------------------------ disjoint targets

\* C20: no account is the target of a follow_user call and of an
\* unfollow_user call of the same run, logins compared in lower case.
C20_TargetsDisjoint ==
    \A i \in At("follow") : \A j \in At("unfollow") :
        lower(trace[i].user) # lower(trace[j].user)

C20_Witness ==
    /\ pc = "returned"
    /\ \E i \in At("follow") : trace[i].user[2] = 1
    /\ \E j \in At("unfollow") : trace[j].ok
    /\ whitelist # {}
====
